---- MODULE Spec2Model ----
(***************************************************************************)
(* Model of docs/staging/workflow-v2/hooks/security-check.py: a pre-edit   *)
(* hook that reads one JSON document from standard input, checks           *)
(* tool_input.file_path against a denylist of file names and substring     *)
(* patterns, and answers with the process exit status (0 allow, 2 block).  *)
(*                                                                         *)
(* Python strings are TLA+ strings; Len, \o and SubSeq act on them         *)
(* character by character.  One step of the model is one statement (or one *)
(* call of a statement) of main(); exceptions are raised into the variable *)
(* exc and dispatched by the except clause of line 28.                     *)
(***************************************************************************)
EXTENDS Integers, Sequences, FiniteSets, TLC

VARIABLES stdin, pc, input_data, tool_input, file_path, filename,
          pattern_idx, stdout, exc, exit_code

vars == <<stdin, pc, input_data, tool_input, file_path, filename,
          pattern_idx, stdout, exc, exit_code>>

(***************************************************************************)
(* Program constants                                                       *)
(***************************************************************************)
PROTECTED_FILES == {".env", ".env.local", ".env.production", "credentials.json"}

\* the same list in another order
PatternsReordered == <<".key", ".pem", "id_rsa">>

PROTECTED_PATTERNS == <<"id_rsa", ".pem", ".key">>

BLOCK == 2

ALLOW == 0

UNCAUGHT == 1

(***************************************************************************)
(* Python values.  Every value is a record of the same shape, so that      *)
(* values of different Python types can be compared.                       *)
(***************************************************************************)
Val(t, b, n, s, elems, fields) ==
    [type |-> t, b |-> b, n |-> n, s |-> s, elems |-> elems, fields |-> fields]

Unbound == Val("unbound", FALSE, 0, "", <<>>, <<>>)
JNull == Val("null", FALSE, 0, "", <<>>, <<>>)
JBool(b) == Val("bool", b, 0, "", <<>>, <<>>)
JNum(n) == Val("num", FALSE, n, "", <<>>, <<>>)
JStr(s) == Val("str", FALSE, 0, s, <<>>, <<>>)
JList(elems) == Val("list", FALSE, 0, "", elems, <<>>)
JObj(fields) == Val("object", FALSE, 0, "", <<>>, fields)

\* bool(v): the truth value Python gives v in `if v`
Truthy(v) ==
    CASE v.type = "null" -> FALSE
      [] v.type = "bool" -> v.b
      [] v.type = "num" -> v.n # 0
      [] v.type = "str" -> v.s # ""
      [] v.type = "list" -> v.elems # <<>>
      [] v.type = "object" -> DOMAIN v.fields # {}
      [] OTHER -> FALSE

(***************************************************************************)
(* String helpers                                                          *)
(***************************************************************************)
Ch(t, i) == IF i >= 1 /\ i <= Len(t) THEN SubSeq(t, i, i) ELSE ""

StartsWithAt(t, i, p) ==
    /\ i >= 1
    /\ i + Len(p) - 1 <= Len(t)
    /\ SubSeq(t, i, i + Len(p) - 1) = p

EndsWith(t, p) == Len(p) <= Len(t) /\ SubSeq(t, Len(t) - Len(p) + 1, Len(t)) = p

\* `p in t` for two str
Substring(p, t) == \E i \in 1..(Len(t) - Len(p) + 1) : StartsWithAt(t, i, p)

\* str.split(sep) for a one-character separator: the list of the pieces
RECURSIVE SplitFrom(_, _, _, _)
SplitFrom(t, sep, start, i) ==
    IF i > Len(t) THEN <<SubSeq(t, start, Len(t))>>
    ELSE IF Ch(t, i) = sep
         THEN <<SubSeq(t, start, i - 1)>> \o SplitFrom(t, sep, i + 1, i + 1)
         ELSE SplitFrom(t, sep, start, i + 1)

Split(t, sep) == SplitFrom(t, sep, 1, 1)

(***************************************************************************)
(* json.load: a recursive-descent reading of the text.  The texts checked  *)
(* hold no escapes, no fractions and no exponents.                         *)
(***************************************************************************)
Digits == {"0", "1", "2", "3", "4", "5", "6", "7", "8", "9"}

DigitVal(c) ==
    CASE c = "0" -> 0 [] c = "1" -> 1 [] c = "2" -> 2 [] c = "3" -> 3
      [] c = "4" -> 4 [] c = "5" -> 5 [] c = "6" -> 6 [] c = "7" -> 7
      [] c = "8" -> 8 [] c = "9" -> 9

Parsed(v, pos) == [ok |-> TRUE, val |-> v, pos |-> pos]

ParseFail == [ok |-> FALSE, val |-> JNull, pos |-> 0]

RECURSIVE SkipWs(_, _)
SkipWs(t, i) == IF Ch(t, i) = " " THEN SkipWs(t, i + 1) ELSE i

\* index of the quote closing a string whose body starts at i, 0 if none
RECURSIVE ClosingQuote(_, _)
ClosingQuote(t, i) ==
    IF i > Len(t) THEN 0
    ELSE IF Ch(t, i) = "\"" THEN i
    ELSE ClosingQuote(t, i + 1)

ParseString(t, i) ==
    LET k == ClosingQuote(t, i + 1)
    IN  IF Ch(t, i) = "\"" /\ k # 0
        THEN Parsed(JStr(SubSeq(t, i + 1, k - 1)), k + 1)
        ELSE ParseFail

RECURSIVE ParseDigits(_, _, _)
ParseDigits(t, i, acc) ==
    IF Ch(t, i) \in Digits
    THEN ParseDigits(t, i + 1, 10 * acc + DigitVal(Ch(t, i)))
    ELSE [n |-> acc, pos |-> i]

ParseNumber(t, i) ==
    LET neg == Ch(t, i) = "-"
        j == IF neg THEN i + 1 ELSE i
        d == IF Ch(t, j) = "0" THEN [n |-> 0, pos |-> j + 1]
             ELSE ParseDigits(t, j, 0)
    IN  IF Ch(t, j) \in Digits
        THEN Parsed(JNum(IF neg THEN 0 - d.n ELSE d.n), d.pos)
        ELSE ParseFail

RECURSIVE ParseValue(_, _), ParseMembers(_, _, _), ParseElems(_, _, _)
ParseValue(t, i) ==
    LET j == SkipWs(t, i)
        c == Ch(t, j)
    IN  CASE c = "{" ->
               IF Ch(t, SkipWs(t, j + 1)) = "}"
               THEN Parsed(JObj(<<>>), SkipWs(t, j + 1) + 1)
               ELSE ParseMembers(t, j + 1, <<>>)
          [] c = "[" ->
               IF Ch(t, SkipWs(t, j + 1)) = "]"
               THEN Parsed(JList(<<>>), SkipWs(t, j + 1) + 1)
               ELSE ParseElems(t, j + 1, <<>>)
          [] c = "\"" -> ParseString(t, j)
          [] StartsWithAt(t, j, "null") -> Parsed(JNull, j + 4)
          [] StartsWithAt(t, j, "true") -> Parsed(JBool(TRUE), j + 4)
          [] StartsWithAt(t, j, "false") -> Parsed(JBool(FALSE), j + 5)
          [] c \in Digits \cup {"-"} -> ParseNumber(t, j)
          [] OTHER -> ParseFail

\* "key": value pairs up to the closing brace; a later pair of the same key
\* replaces the earlier one
ParseMembers(t, i, acc) ==
    LET k == ParseString(t, SkipWs(t, i))
        colon == SkipWs(t, k.pos)
        v == ParseValue(t, colon + 1)
        after == SkipWs(t, v.pos)
        acc2 == (k.val.s :> v.val) @@ acc
    IN  IF ~k.ok \/ Ch(t, colon) # ":" THEN ParseFail
        ELSE IF ~v.ok THEN ParseFail
        ELSE IF Ch(t, after) = "," THEN ParseMembers(t, after + 1, acc2)
        ELSE IF Ch(t, after) = "}" THEN Parsed(JObj(acc2), after + 1)
        ELSE ParseFail

ParseElems(t, i, acc) ==
    LET v == ParseValue(t, i)
        after == SkipWs(t, v.pos)
    IN  IF ~v.ok THEN ParseFail
        ELSE IF Ch(t, after) = "," THEN ParseElems(t, after + 1, Append(acc, v.val))
        ELSE IF Ch(t, after) = "]" THEN Parsed(JList(Append(acc, v.val)), after + 1)
        ELSE ParseFail

\* json.load(sys.stdin): the value, or ok = FALSE where it raises JSONDecodeError
JsonLoad(text) ==
    LET r == ParseValue(text, 1)
    IN  IF r.ok /\ SkipWs(text, r.pos) = Len(text) + 1 THEN r ELSE ParseFail

(***************************************************************************)
(* Standard input: the documents the hook is run on                        *)
(***************************************************************************)
MaxPieces == 2

\* the text a path is put together from
Pieces ==
    {"/", "/home/user/", "/keys/", "/src/", "certs.pem/", ".env", ".env.local", ".env.production",
     "credentials.json", "id_rsa", ".pem", ".key", ".ke", "y", "monkey.txt",
     "my.keynote.txt", ".ENV", ".env.backup", "main.py"}

RECURSIVE PathsOf(_)
PathsOf(n) ==
    IF n = 0 THEN {""}
    ELSE LET shorter == PathsOf(n - 1)
         IN  shorter \cup {p \o q : p \in shorter, q \in Pieces}

Paths == PathsOf(MaxPieces)

\* what surrounds the path in an edit request: the bare request, and one with
\* blanks and other fields around tool_input.file_path
Envelopes ==
    {[pre |-> "{\"tool_input\":{\"file_path\":\"", post |-> "\"}}"],
     [pre |-> "{\"tool_name\": \"Edit\", \"tool_input\": {\"file_path\": \"",
      post |-> "\", \"old_string\": \".env\"}, \"cwd\": \"/id_rsa\"}"]}

RequestText(e, p) == e.pre \o p \o e.post

EditRequests == {RequestText(e, p) : e \in Envelopes, p \in Paths}

\* objects without the tool_input key, or whose tool_input has no file_path key
MissingKeyDocs ==
    {"{}",
     "{\"tool_name\":\"Edit\"}",
     "{\"file_path\":\".env\"}",
     "{\"tool_input\":{}}",
     "{\"tool_input\":{\"path\":\"/keys/id_rsa\"}}",
     "{\"tool_input\":{\"content\":\".env\"},\"tool_name\":\"Write\"}"}

\* JSON documents of another shape than {"tool_input": {"file_path": <string>}}
TopLevelNotObject ==
    {"null", "true", "0", "7", "\".env\"", "[]", "[\".env\"]",
     "[{\"tool_input\":{\"file_path\":\".env\"}}]"}

ToolInputNotObject ==
    {"{\"tool_input\":null}", "{\"tool_input\":\".env\"}", "{\"tool_input\":5}",
     "{\"tool_input\":[\"file_path\",\".env\"]}", "{\"tool_input\":false}"}

FilePathNotString ==
    {"{\"tool_input\":{\"file_path\":null}}",
     "{\"tool_input\":{\"file_path\":0}}",
     "{\"tool_input\":{\"file_path\":5}}",
     "{\"tool_input\":{\"file_path\":-1}}",
     "{\"tool_input\":{\"file_path\":true}}",
     "{\"tool_input\":{\"file_path\":false}}",
     "{\"tool_input\":{\"file_path\":[]}}",
     "{\"tool_input\":{\"file_path\":[\".env\"]}}",
     "{\"tool_input\":{\"file_path\":[\"id_rsa\"]}}",
     "{\"tool_input\":{\"file_path\":[\"/keys/id_rsa\", \".env\"]}}",
     "{\"tool_input\":{\"file_path\":{}}}",
     "{\"tool_input\":{\"file_path\":{\".env\":1}}}",
     "{\"tool_input\":{\"file_path\":{\"id_rsa\":\".pem\"}}}"}

OddShapeDocs == TopLevelNotObject \cup ToolInputNotObject \cup FilePathNotString

\* every proper prefix of a text
Prefixes(t) == {SubSeq(t, 1, n) : n \in 0..(Len(t) - 1)}

\* texts that are not JSON: the empty input, cut-off requests, stray text
MalformedDocs ==
    Prefixes("{\"tool_input\":{\"file_path\":\"/home/user/.env\"}}")
    \cup Prefixes("{\"tool_input\": {\"file_path\": [\"id_rsa\"]}}")
    \cup {" ", ".env", "/keys/id_rsa", "{\"tool_input\":{\"file_path\":\".env\"}}}",
          "{\"tool_input\":{\"file_path\":\".env\",}}",
          "{\"tool_input\":{\"file_path\":.env}}",
          "{tool_input:{file_path:\".env\"}}",
          "{\"tool_input\":{\"file_path\" \".pem\"}}",
          "{\"tool_input\":{\"file_path\":\".env\"}} {}",
          "[\".env\",]", "nul", "01", "-"}

StdinDocs == EditRequests \cup MissingKeyDocs \cup OddShapeDocs \cup MalformedDocs

(***************************************************************************)
(* The operations main() applies to the values                             *)
(***************************************************************************)
\* the classes `except Exception` catches: SystemExit derives from
\* BaseException, not from Exception
\* a bare `except:` catches SystemExit too
IsExceptionBare(cls) == TRUE

\* `except (AttributeError, TypeError)` leaves the parse error uncaught
IsExceptionNoDecodeError(cls) == cls \in {"AttributeError", "TypeError"}

\* `except json.JSONDecodeError` leaves the other errors uncaught
IsExceptionOnlyDecodeError(cls) == cls = "JSONDecodeError"

IsException(cls) == cls \in {"JSONDecodeError", "AttributeError", "TypeError"}

NoException == [cls |-> "", code |-> 0, context |-> ""]

\* v.get(key, default) of line 13: only a dict has the method
HasGet(v) == v.type = "object"

DictGet(v, key, default) ==
    IF key \in DOMAIN v.fields THEN v.fields[key] ELSE default

\* .get('tool_input') without the default
ToolInputDefaultNone == JNull

ToolInputDefault == JObj(<<>>)

FilePathDefault == JStr("")

\* file_path.split('/')[-1] of line 16: only a str has the method
HasSplit(v) == v.type = "str"

LastSegment(s) == LET parts == Split(s, "/") IN parts[Len(parts)]

\* a prefix test in place of the membership test
IsProtectedFilePrefix(name) == \E f \in PROTECTED_FILES : StartsWithAt(name, 1, f)

\* filename in PROTECTED_FILES of line 17
IsProtectedFile(name) == name \in PROTECTED_FILES

\* pattern in file_path of line 23: a substring test on a str, an element test
\* on a list, a key test on a dict, a TypeError on anything else
SupportsIn(v) == v.type \in {"str", "list", "object"}

\* the pattern looked for in the file name only
PatternInFilename(pattern, v) ==
    v.type = "str" /\ Substring(pattern, LastSegment(v.s))

\* the pattern looked for without its leading dot
PatternInNoDot(pattern, v) ==
    /\ v.type = "str"
    /\ Substring(IF Ch(pattern, 1) = "." THEN SubSeq(pattern, 2, Len(pattern))
                 ELSE pattern, v.s)

PatternIn(pattern, v) ==
    CASE v.type = "str" -> Substring(pattern, v.s)
      [] v.type = "list" -> \E i \in DOMAIN v.elems : v.elems[i] = JStr(pattern)
      [] v.type = "object" -> pattern \in DOMAIN v.fields
      [] OTHER -> FALSE

FileMessage(name) == "BLOCKED: Cannot edit protected file: " \o name

PatternMessage(pattern) == "BLOCKED: Cannot edit file matching pattern: " \o pattern

(***************************************************************************)
(* The run of main(), one statement at a time                              *)
(***************************************************************************)
Init ==
    /\ stdin \in StdinDocs
    /\ pc = "load"
    /\ input_data = Unbound
    /\ tool_input = Unbound
    /\ file_path = Unbound
    /\ filename = Unbound
    /\ pattern_idx = 0
    /\ stdout = <<>>
    /\ exc = NoException
    /\ exit_code = -1

\* raise cls(code) at the current statement: control goes to the except clause
Raise(cls, code) ==
    /\ exc' = [cls |-> cls, code |-> code, context |-> ""]
    /\ pc' = "except"

\* line 12: input_data = json.load(sys.stdin)
Load ==
    /\ pc = "load"
    /\ LET r == JsonLoad(stdin)
       IN  IF r.ok
           THEN /\ input_data' = r.val
                /\ pc' = "get_tool_input"
                /\ exc' = exc
           ELSE /\ Raise("JSONDecodeError", UNCAUGHT)
                /\ input_data' = input_data
    /\ UNCHANGED <<stdin, tool_input, file_path, filename, pattern_idx, stdout,
                   exit_code>>

\* line 13, first call: input_data.get('tool_input', {})
GetToolInput ==
    /\ pc = "get_tool_input"
    /\ IF HasGet(input_data)
       THEN /\ tool_input' = DictGet(input_data, "tool_input", ToolInputDefault)
            /\ pc' = "get_file_path"
            /\ exc' = exc
       ELSE /\ Raise("AttributeError", UNCAUGHT)
            /\ tool_input' = tool_input
    /\ UNCHANGED <<stdin, input_data, file_path, filename, pattern_idx, stdout,
                   exit_code>>

\* line 13, second call: file_path = (...).get('file_path', '')
GetFilePath ==
    /\ pc = "get_file_path"
    /\ IF HasGet(tool_input)
       THEN /\ file_path' = DictGet(tool_input, "file_path", FilePathDefault)
            /\ pc' = "filename"
            /\ exc' = exc
       ELSE /\ Raise("AttributeError", UNCAUGHT)
            /\ file_path' = file_path
    /\ UNCHANGED <<stdin, input_data, tool_input, filename, pattern_idx, stdout,
                   exit_code>>

\* line 16: filename = file_path.split('/')[-1] if file_path else ''
ComputeFilename ==
    /\ pc = "filename"
    /\ IF ~Truthy(file_path)
       THEN /\ filename' = JStr("")
            /\ pc' = "check_file"
            /\ exc' = exc
       ELSE IF HasSplit(file_path)
       THEN /\ filename' = JStr(LastSegment(file_path.s))
            /\ pc' = "check_file"
            /\ exc' = exc
       ELSE /\ Raise("AttributeError", UNCAUGHT)
            /\ filename' = filename
    /\ UNCHANGED <<stdin, input_data, tool_input, file_path, pattern_idx, stdout,
                   exit_code>>

\* line 17: if filename in PROTECTED_FILES; line 22 starts the loop otherwise
CheckProtectedFile ==
    /\ pc = "check_file"
    /\ IF IsProtectedFile(filename.s)
       THEN /\ pc' = "print_file"
            /\ pattern_idx' = pattern_idx
       ELSE /\ pc' = "loop"
            /\ pattern_idx' = 1
    /\ UNCHANGED <<stdin, input_data, tool_input, file_path, filename, stdout,
                   exc, exit_code>>

\* line 18: print(f"BLOCKED: Cannot edit protected file: {filename}")
PrintProtectedFile ==
    /\ pc = "print_file"
    /\ stdout' = Append(stdout, FileMessage(filename.s))
    /\ pc' = "exit_file"
    /\ UNCHANGED <<stdin, input_data, tool_input, file_path, filename,
                   pattern_idx, exc, exit_code>>

\* line 19: sys.exit(2)
ExitProtectedFile ==
    /\ pc = "exit_file"
    /\ Raise("SystemExit", BLOCK)
    /\ UNCHANGED <<stdin, input_data, tool_input, file_path, filename,
                   pattern_idx, stdout, exit_code>>

\* lines 22-23: for pattern in PROTECTED_PATTERNS: if pattern in file_path
CheckPattern ==
    /\ pc = "loop"
    /\ IF pattern_idx > Len(PROTECTED_PATTERNS)
       THEN /\ pc' = "exit_allow"
            /\ UNCHANGED <<pattern_idx, exc>>
       ELSE IF ~SupportsIn(file_path)
       THEN /\ Raise("TypeError", UNCAUGHT)
            /\ UNCHANGED pattern_idx
       ELSE IF PatternIn(PROTECTED_PATTERNS[pattern_idx], file_path)
       THEN /\ pc' = "print_pattern"
            /\ UNCHANGED <<pattern_idx, exc>>
       ELSE /\ pattern_idx' = pattern_idx + 1
            /\ UNCHANGED <<pc, exc>>
    /\ UNCHANGED <<stdin, input_data, tool_input, file_path, filename, stdout,
                   exit_code>>

\* line 24: print(f"BLOCKED: Cannot edit file matching pattern: {pattern}")
PrintPattern ==
    /\ pc = "print_pattern"
    /\ stdout' = Append(stdout, PatternMessage(PROTECTED_PATTERNS[pattern_idx]))
    /\ pc' = "exit_pattern"
    /\ UNCHANGED <<stdin, input_data, tool_input, file_path, filename,
                   pattern_idx, exc, exit_code>>

\* line 25: sys.exit(2)
ExitPattern ==
    /\ pc = "exit_pattern"
    /\ Raise("SystemExit", BLOCK)
    /\ UNCHANGED <<stdin, input_data, tool_input, file_path, filename,
                   pattern_idx, stdout, exit_code>>

\* line 27: sys.exit(0)
ExitAllow ==
    /\ pc = "exit_allow"
    /\ Raise("SystemExit", ALLOW)
    /\ UNCHANGED <<stdin, input_data, tool_input, file_path, filename,
                   pattern_idx, stdout, exit_code>>

\* line 28: except Exception.  What the clause does not catch leaves main()
\* and ends the process: SystemExit with its code, anything else with status 1
Except ==
    /\ pc = "except"
    /\ IF IsException(exc.cls)
       THEN /\ pc' = "handler"
            /\ UNCHANGED exit_code
       ELSE /\ pc' = "done"
            /\ exit_code' = exc.code
    /\ UNCHANGED <<stdin, input_data, tool_input, file_path, filename,
                   pattern_idx, stdout, exc>>

\* line 29: sys.exit(0) in the handler; nothing encloses it, and the exception
\* being handled becomes the __context__ of the SystemExit
Handler ==
    /\ pc = "handler"
    /\ exc' = [cls |-> "SystemExit", code |-> ALLOW, context |-> exc.cls]
    /\ exit_code' = ALLOW
    /\ pc' = "done"
    /\ UNCHANGED <<stdin, input_data, tool_input, file_path, filename,
                   pattern_idx, stdout>>

Next ==
    \/ Load
    \/ GetToolInput
    \/ GetFilePath
    \/ ComputeFilename
    \/ CheckProtectedFile
    \/ PrintProtectedFile
    \/ ExitProtectedFile
    \/ CheckPattern
    \/ PrintPattern
    \/ ExitPattern
    \/ ExitAllow
    \/ Except
    \/ Handler

Spec == Init /\ [][Next]_vars

(***************************************************************************)
(* What the properties speak of, read off the text on standard input and   *)
(* off the process's exit status and output                                *)
(***************************************************************************)
ClaimedFiles == {".env", ".env.local", ".env.production", "credentials.json"}

ClaimedPatterns == <<"id_rsa", ".pem", ".key">>

Done == pc = "done"

\* t occurs in p as a run of consecutive characters
Occurs(t, p) == \E i \in 0..(Len(p) - Len(t)) : SubSeq(p, i + 1, i + Len(t)) = t

\* what follows the last '/' of p; all of p when it has none
FinalSegmentOf(p) ==
    LET slashes == {i \in 1..Len(p) : SubSeq(p, i, i) = "/"}
        last == IF slashes = {} THEN 0
                ELSE CHOOSE i \in slashes : \A j \in slashes : j <= i
    IN  SubSeq(p, last + 1, Len(p))

Middle(e) == SubSeq(stdin, Len(e.pre) + 1, Len(stdin) - Len(e.post))

Matches(e) ==
    /\ Len(stdin) >= Len(e.pre) + Len(e.post)
    /\ StartsWithAt(stdin, 1, e.pre)
    /\ EndsWith(stdin, e.post)
    /\ ~Occurs("\"", Middle(e))

\* standard input is an edit request whose tool_input.file_path is a string
IsEditRequest == \E e \in Envelopes : Matches(e)

RequestedPath == Middle(CHOOSE e \in Envelopes : Matches(e))

RequestedFile == FinalSegmentOf(RequestedPath)

PatternsInPath ==
    {i \in DOMAIN ClaimedPatterns : Occurs(ClaimedPatterns[i], RequestedPath)}

FirstPatternInPath ==
    ClaimedPatterns[CHOOSE i \in PatternsInPath : \A j \in PatternsInPath : i <= j]

Allowed == exit_code = 0 /\ stdout = <<>>

\* C1: a request whose path ends in a protected file name, whatever the
\* directories before it, ends with exit status 2 and the one output line
\* "BLOCKED: Cannot edit protected file: <name>"; the except clause does not
\* turn the block into an allow.
C1_ProtectedFileBlocked ==
    (Done /\ IsEditRequest /\ RequestedFile \in ClaimedFiles)
        => /\ exit_code = 2
           /\ stdout = <<"BLOCKED: Cannot edit protected file: " \o RequestedFile>>

C1_Witness ==
    /\ Done
    /\ IsEditRequest
    /\ RequestedFile \in ClaimedFiles
    /\ RequestedPath # RequestedFile
    /\ exit_code = 2

\* C2: a request whose path holds 'id_rsa', '.pem' or '.key' anywhere, a
\* directory segment included, and whose file name is not protected, ends with
\* exit status 2 and the one output line "BLOCKED: Cannot edit file matching
\* pattern: <pattern>" for a pattern that occurs in the path.
C2_PatternBlocked ==
    (Done /\ IsEditRequest /\ RequestedFile \notin ClaimedFiles
          /\ PatternsInPath # {})
        => /\ exit_code = 2
           /\ \E i \in PatternsInPath :
                 stdout = <<"BLOCKED: Cannot edit file matching pattern: "
                               \o ClaimedPatterns[i]>>

C2_Witness ==
    /\ Done
    /\ IsEditRequest
    /\ RequestedFile \notin ClaimedFiles
    /\ PatternsInPath # {}
    /\ \A i \in DOMAIN ClaimedPatterns : ~Occurs(ClaimedPatterns[i], RequestedFile)
    /\ exit_code = 2

\* C3: a request whose file name is not exactly a protected name and whose
\* path holds none of the patterns (the empty path, a path ending in '/', and
\* near misses such as '.env.backup' or '.ENV' among them) ends with exit
\* status 0 and no output.
C3_OtherPathsAllowed ==
    (Done /\ IsEditRequest /\ RequestedFile \notin ClaimedFiles
          /\ PatternsInPath = {})
        => Allowed

C3_Witness ==
    /\ Done
    /\ IsEditRequest
    /\ RequestedFile = ".env.backup"
    /\ RequestedPath # RequestedFile
    /\ Allowed

\* C4: when standard input is not JSON (the empty input included) nothing is
\* parsed, and the run ends with exit status 0 and no output.
C4_MalformedAllowed ==
    (Done /\ stdin \in MalformedDocs) => (input_data = Unbound /\ Allowed)

C4_Witness == Done /\ stdin = "" /\ Allowed /\ exc.context = "JSONDecodeError"

LacksToolInput ==
    /\ input_data.type = "object"
    /\ "tool_input" \notin DOMAIN input_data.fields

LacksFilePath ==
    /\ input_data.type = "object"
    /\ "tool_input" \in DOMAIN input_data.fields
    /\ input_data.fields["tool_input"].type = "object"
    /\ "file_path" \notin DOMAIN input_data.fields["tool_input"].fields

\* C5: a JSON object without the 'tool_input' key, or whose 'tool_input'
\* object has no 'file_path' key, is handled as the empty path: no rule
\* matches and the run ends with exit status 0 and no output.
C5_MissingKeysAllowed ==
    (Done /\ (LacksToolInput \/ LacksFilePath))
        => (file_path = JStr("") /\ filename = JStr("") /\ Allowed)

C5_Witness ==
    /\ Done
    /\ stdin = "{\"tool_name\":\"Edit\"}"
    /\ LacksToolInput
    /\ file_path = JStr("")
    /\ Allowed

\* C6: whatever standard input holds, the run goes on until the process ends,
\* and it ends with exit status 0 or 2: never another status, never an
\* uncaught error.  (Before the process ends there is a next statement to
\* run; on line 12 the parse gives a value or raises.)
C6_ExitCodeZeroOrTwo ==
    /\ Done => exit_code \in {0, 2}
    /\ ~Done => exit_code = -1
    /\ pc = "load" => JsonLoad(stdin).ok \in BOOLEAN
    /\ (~Done /\ pc # "load") => ENABLED Next

C6_Witness ==
    /\ Done
    /\ stdin \in OddShapeDocs
    /\ exc.context = "AttributeError"
    /\ exit_code = 0

IsBlockedLine(line) ==
    \/ \E f \in ClaimedFiles : line = "BLOCKED: Cannot edit protected file: " \o f
    \/ \E i \in DOMAIN ClaimedPatterns :
          line = "BLOCKED: Cannot edit file matching pattern: " \o ClaimedPatterns[i]

\* C7: output and decision go together: one BLOCKED line is written exactly
\* when the exit status is 2, nothing is written when it is 0 (every error
\* path included), and no run writes more than one line.
C7_OutputIffBlock ==
    /\ Len(stdout) <= 1
    /\ \A i \in DOMAIN stdout : IsBlockedLine(stdout[i])
    /\ Done => (exit_code = 2 <=> Len(stdout) = 1)
    /\ Done => (exit_code = 0 => stdout = <<>>)
    /\ (Done /\ exc.context # "") => stdout = <<>>

C7_Witness ==
    /\ Done
    /\ exit_code = 2
    /\ Len(stdout) = 1
    /\ stdout[1] = "BLOCKED: Cannot edit file matching pattern: .pem"

\* standard input parsed, and it is not an object, or its tool_input is not
\* an object, or its file_path is not a string
OddShape ==
    /\ input_data # Unbound
    /\ \/ input_data.type # "object"
       \/ /\ "tool_input" \in DOMAIN input_data.fields
          /\ LET ti == input_data.fields["tool_input"]
             IN  \/ ti.type # "object"
                 \/ /\ "file_path" \in DOMAIN ti.fields
                    /\ ti.fields["file_path"].type # "str"

\* an empty list or object as file_path raises nothing: it is falsy on line
\* 16 and holds no pattern on line 23
RaisesNothing == file_path.type \in {"list", "object"} /\ ~Truthy(file_path)

\* C8: a request that parses as JSON but is of another shape (top level not
\* an object, tool_input not an object, file_path not a string, even one
\* holding a protected name) ends with exit status 0 and no output; the
\* exception its processing raises is handled by the except clause.
C8_OddShapeAllowed ==
    (Done /\ OddShape)
        => /\ Allowed
           /\ \/ exc.context \in {"AttributeError", "TypeError"}
              \/ RaisesNothing /\ exc.context = ""

C8_Witness ==
    /\ Done
    /\ stdin = "{\"tool_input\":{\"file_path\":[\".env\"]}}"
    /\ OddShape
    /\ exc.context = "AttributeError"
    /\ Allowed

\* C9: the first matching rule alone gives the message: the protected file
\* name check comes before the patterns, and the patterns are tried in the
\* order 'id_rsa', '.pem', '.key'; one message at most is written.
C9_FirstMatchWins ==
    (Done /\ IsEditRequest /\ PatternsInPath # {})
        => stdout = <<IF RequestedFile \in ClaimedFiles
                      THEN "BLOCKED: Cannot edit protected file: " \o RequestedFile
                      ELSE "BLOCKED: Cannot edit file matching pattern: "
                               \o FirstPatternInPath>>

C9_Witness ==
    /\ Done
    /\ IsEditRequest
    /\ RequestedPath = ".key.pem"
    /\ stdout = <<"BLOCKED: Cannot edit file matching pattern: .pem">>

C9_WitnessFileFirst ==
    /\ Done
    /\ IsEditRequest
    /\ RequestedPath = "certs.pem/.env"
    /\ stdout = <<"BLOCKED: Cannot edit protected file: .env">>

\* C10 as stated: a request for 'monkey.txt' ends with exit status 2 and the
\* message for the pattern '.key'.
C10_MonkeyBlocked ==
    (Done /\ IsEditRequest /\ RequestedPath = "monkey.txt")
        => /\ exit_code = 2
           /\ stdout = <<"BLOCKED: Cannot edit file matching pattern: .key">>

\* C10 as amended: the substring test on '.key' blocks an unrelated file name
\* that holds '.key', such as 'my.keynote.txt'; 'monkey.txt' holds 'key.' and
\* not '.key', and is allowed with exit status 0 and no output.
C10_DotKeySubstring ==
    /\ (Done /\ IsEditRequest /\ RequestedPath = "monkey.txt") => Allowed
    /\ (Done /\ IsEditRequest /\ RequestedPath = "my.keynote.txt")
          => /\ exit_code = 2
             /\ stdout = <<"BLOCKED: Cannot edit file matching pattern: .key">>

C10_Witness ==
    /\ Done
    /\ IsEditRequest
    /\ RequestedPath = "monkey.txt"
    /\ ~Occurs(".key", RequestedPath)
    /\ Occurs("key.", RequestedPath)
    /\ Allowed

C10_WitnessKeynote ==
    /\ Done
    /\ IsEditRequest
    /\ RequestedPath = "my.keynote.txt"
    /\ exit_code = 2

====
